---- MODULE Spec2Model ----
(***************************************************************************)
(* Elsewherr: tags the items of two catalogs (Radarr movies, Sonarr        *)
(* series) with the streaming providers TMDb reports for them.             *)
(* Model of src/elsewherr.py: Elsewherr.run, _process_service,             *)
(* _process_single_item, _log_change, _print_changes_summary.              *)
(*                                                                         *)
(* Text is modelled as a sequence of one-character strings, so that the    *)
(* label function and str.startswith are computed character by character.  *)
(***************************************************************************)
EXTENDS Integers, Sequences, FiniteSets, TLC

\* ------------------------------------------------------------------ bounds
MaxMovies == 3      \* items Radarr lists at most
MaxSeries == 1      \* items Sonarr lists at most
MaxRuns == 2        \* times the script is started against the same catalogs
MAX_WORKERS == 2    \* ThreadPoolExecutor(max_workers=MAX_WORKERS), scaled down

\* --------------------------------------------------------------- constants
MAX_RETRIES == 3

\* --------------------------------------------------------------- alphabet
UpperOf == [c \in {"s", "h", "b", "d", "f", "z", "x"} |->
              CASE c = "s" -> "S" [] c = "h" -> "H" [] c = "b" -> "B"
                [] c = "d" -> "D" [] c = "f" -> "F" [] c = "z" -> "Z"
                [] c = "x" -> "X"]
LowerLetters == DOMAIN UpperOf
UpperLetters == {UpperOf[c] : c \in LowerLetters}
Digits == {"1"}
Punct == {"-", "+", " "}

\* str.lower() on one character
LowerChar(c) ==
    IF c \in UpperLetters THEN CHOOSE l \in LowerLetters : UpperOf[l] = c ELSE c

\* str.lower()
Lower(str) == [k \in 1..Len(str) |-> LowerChar(str[k])]

\* the class [A-Za-z0-9]
IsAlnum(c) == c \in LowerLetters \cup UpperLetters \cup Digits

\* re.sub("[^A-Za-z0-9]+", "", provider_name)
Sanitize(provider_name) == SelectSeq(provider_name, IsAlnum)

\* Elsewherr._get_tag_label_for_provider: f"{prefix}{sanitized}".lower()
get_tag_label_for_provider(pfx, provider_name) ==
    Lower(pfx \o Sanitize(provider_name))

\* str.startswith
startswith(str, pfx) ==
    /\ Len(pfx) <= Len(str)
    /\ SubSeq(str, 1, Len(pfx)) = pfx

\* ------------------------------------------------------------ input data
Hb == <<"H", "b">>            \* provider names as TMDb spells them
DPlus == <<"D", "+">>
Xx == <<"X", "x">>            \* offered by TMDb, never configured
ProviderNames == {Hb, DPlus, Xx}

PrefixLower == <<"s", "-">>
PrefixUpper == <<"S", "-">>
Prefixes == {PrefixLower, PrefixUpper}

\* the tags each catalog holds before the first run; a tag's id is its index
InitialTags == << <<"f">>, <<"s", "-", "z">>, <<"s", "-", "h", "b">> >>

Services == {"Radarr", "Sonarr"}
Movies == {<<"Radarr", k>> : k \in 1..MaxMovies}
Series == {<<"Sonarr", k>> : k \in 1..MaxSeries}
Items == Movies \cup Series
media_type(s) == IF s = "Radarr" THEN "movie" ELSE "series"

NextService(s) == IF s = "Radarr" THEN "Sonarr" ELSE "summary"

Range(f) == {f[x] : x \in DOMAIN f}

\* ------------------------------------------------------------------ state
VARIABLES
    prefix,            \* self.prefix
    providers,         \* self.providers, in configuration order
    xref,              \* per item: what the TMDb id lookup yields
    flatrate,          \* per item: TMDb's flatrate providers in self.region
    cat_tags,          \* per catalog: its tag list (id = index, value = label)
    cat_item_tags,     \* per item: the tag ids the catalog stores for it
    all_media,         \* the items the catalogs list (get_movie, get_series)
    untitled,          \* the listed items whose record has no "title" key
    tags_before,       \* the tag ids the catalog stored when the process started
    starts,            \* how many times the script will be started
    run_no,            \* which start of the script this is
    main_pc,           \* position of Elsewherr.run
    svc_pc,            \* position of _process_service
    tag_idx,           \* loop index of "for provider in self.providers"
    item_tags,         \* per item: item["tags"] of the fetched record
    tags_id_to_label,  \* built once per service run
    tags_label_to_id,
    pc,                \* per item: position of _process_single_item
    retry_attempt,     \* per item: the loop variable
    pend,              \* per item: arguments of the pending _log_change call
    reason,            \* per item: reason of the pending errors_log entry
    stat_tmp,          \* per item: service_stats entry read inside the lock
    changes_lock,      \* holder of self.changes_lock, or NoOne
    changes_log,
    errors_log,
    service_stats,
    summaries,
    report,            \* what _print_changes_summary rendered
    update_calls,      \* per item: upd_movie / upd_series calls issued this run
    prev_success,      \* items the previous run recorded as processed
    gotify_errors,     \* items with "Failed to send Gotify notification" logged
    nfo,               \* per item: its movie.nfo / tvshow.nfo file
    sync_svc,          \* which *_tags_to_jellyfin_nfo.py script is run
    sync_pc,           \* position of that script's main()
    sync_idx,          \* its loop over the listed items
    updated_count      \* its count of NFO files written

config == <<prefix, providers>>
tmdb == <<xref, flatrate>>
service == <<svc_pc, tag_idx, tags_id_to_label, tags_label_to_id>>
aggregator == <<changes_lock, changes_log, errors_log, service_stats, stat_tmp>>
driver == <<starts, run_no, main_pc, summaries, report, prev_success>>
sidecar == <<nfo, sync_svc, sync_pc, sync_idx, updated_count>>
vars == <<prefix, providers, xref, flatrate, cat_tags, cat_item_tags,
          all_media, untitled, tags_before, starts,
          run_no,
          main_pc, svc_pc, tag_idx, item_tags, tags_id_to_label,
          tags_label_to_id, pc, retry_attempt, pend, reason, stat_tmp,
          changes_lock, changes_log, errors_log, service_stats, summaries,
          report, update_calls, prev_success, gotify_errors,
          nfo, sync_svc, sync_pc, sync_idx, updated_count>>

\* all_media of service s: what get_movie() / get_series() returns
ItemsOf(s) == {i \in all_media : i[1] = s}

NoOne == <<"none", 0>>
NoTags == << >>
ZeroStats == [processed |-> 0, updated |-> 0, errors |-> 0]
NoPend == [success |-> FALSE, added |-> {}, removed |-> {}, notify |-> FALSE]

NotFoundReason == "TMDB ID not found."
ErrorReason == "Error: "                       \* f'Error: {error_msg[:50]}'
IndexErrorReason == "Error: IndexError: list index out of range"
NetworkReason == "Network error after 3 retries."

\* what a network call can do: return, raise RequestException, raise another
\* exception
CallOutcomes == {"ok", "net", "exc"}

\* Elsewherr.__init__: the run state of a fresh process
FreshProcess ==
    /\ main_pc = "Radarr"
    /\ svc_pc = "get_media"
    /\ tag_idx = 1
    /\ item_tags = [i \in Items |-> {}]
    /\ tags_id_to_label = NoTags
    /\ tags_label_to_id = NoTags
    /\ pc = [i \in Items |-> "idle"]
    /\ retry_attempt = [i \in Items |-> 0]
    /\ pend = [i \in Items |-> NoPend]
    /\ reason = [i \in Items |-> ""]
    /\ stat_tmp = [i \in Items |-> ZeroStats]
    /\ changes_lock = NoOne
    /\ changes_log = << >>
    /\ errors_log = << >>
    /\ service_stats = [s \in Services |-> ZeroStats]
    /\ summaries = << >>
    /\ report = [kind |-> "none"]
    /\ update_calls = [i \in Items |-> 0]
    /\ gotify_errors = {}

\* what an item may look like before the first run: the tag ids the catalog
\* stores for it (ids of InitialTags), the flatrate list TMDb reports for it,
\* and what the TMDb id lookup yields
ItemCases ==
    { [tags |-> {1, 2}, flatrate |-> {Hb, Xx},    xref |-> "found"],
      [tags |-> {1, 3}, flatrate |-> {Hb, DPlus}, xref |-> "found"],
      [tags |-> {3},    flatrate |-> {},          xref |-> "found"],
      [tags |-> {1, 3}, flatrate |-> {Hb, Xx},    xref |-> "found"],
      [tags |-> {1},    flatrate |-> {Hb},        xref |-> "none"],
      [tags |-> {1},    flatrate |-> {Hb},        xref |-> "empty_list"],
      [tags |-> {1},    flatrate |-> {Hb},        xref |-> "no_id"] }

\* a movie record has a tmdbId or none; a series is looked up by its tvdbId
XrefOf(i) == IF i \in Movies THEN {"found", "none"}
                             ELSE {"found", "empty_list", "no_id"}

\* the cases followed over more than one start of the script
RerunCases ==
    { [tags |-> {1, 2}, flatrate |-> {Hb, Xx}, xref |-> "found"],
      [tags |-> {1, 3}, flatrate |-> {Hb, Xx}, xref |-> "found"] }

\* the libraries followed: as many movies as there are workers and every
\* series, or more movies than there are workers and no series
SmallLibrary == {i \in Movies : i[2] <= MAX_WORKERS} \cup Series
LargeLibrary == Movies
Libraries == {SmallLibrary, LargeLibrary}

\* the cases followed when the executor has more work items than workers
PoolCases ==
    { [tags |-> {1, 2}, flatrate |-> {Hb, Xx}, xref |-> "found"] }

\* an item that no catalog lists
Unlisted == [tags |-> {}, flatrate |-> {}, xref |-> "none"]

\* an item without an NFO file
NoNfo == [file |-> "missing", tags |-> << >>]

\* the scripts are not run
SidecarOff ==
    /\ nfo = [i \in Items |-> NoNfo]
    /\ sync_svc = "Radarr"
    /\ sync_pc = "off"
    /\ sync_idx = 1
    /\ updated_count = 0

\* a fresh process in front of two catalogs and of TMDb
InitWorld ==
    /\ prefix \in Prefixes
    /\ providers = <<Hb, DPlus>>
    /\ starts \in 1..MaxRuns
    /\ all_media \in Libraries
    /\ \E case \in [Items -> ItemCases \cup {Unlisted}] :
          /\ \A i \in Items :
                IF i \in all_media
                THEN case[i] \in ItemCases /\ case[i].xref \in XrefOf(i)
                ELSE case[i] = Unlisted
          /\ starts > 1 =>
                /\ prefix = PrefixLower
                /\ all_media = SmallLibrary
                /\ \A i \in all_media : case[i] \in RerunCases
          /\ all_media = LargeLibrary =>
                /\ prefix = PrefixLower
                /\ starts = 1
                /\ \A i \in all_media : case[i] \in PoolCases
          /\ xref = [i \in Items |-> case[i].xref]
          /\ flatrate = [i \in Items |-> case[i].flatrate]
          /\ cat_item_tags = [i \in Items |-> case[i].tags]
    /\ tags_before = cat_item_tags
    /\ cat_tags = [s \in Services |-> InitialTags]
    /\ run_no = 1
    /\ prev_success = {}
    /\ FreshProcess
    /\ SidecarOff

\* the catalogs deliver every record with its title
Init ==
    /\ InitWorld
    /\ untitled = {}

\* one record of the small library comes without a "title" key
InitUntitled ==
    /\ InitWorld
    /\ all_media = SmallLibrary
    /\ untitled \in {{i} : i \in all_media}

\* --------------------------------------------------- _process_service
\* an exception that is only logged: the loop over the providers goes on
\* with the next one
AbortSkipsTag(s) ==
    /\ main_pc' = main_pc
    /\ svc_pc' = svc_pc
    /\ tag_idx' = IF svc_pc = "create_tag" /\ tag_idx <= Len(providers)
                  THEN tag_idx + 1 ELSE tag_idx

\* one try block around both services: an exception ends the whole run
AbortWholeRun(s) ==
    /\ main_pc' = "summary"
    /\ svc_pc' = "get_media"
    /\ tag_idx' = 1

\* an exception leaves _process_service and is caught in run(): the service
\* is abandoned and run() goes on with the next one
AbortService(s) ==
    /\ main_pc' = NextService(s)
    /\ svc_pc' = "get_media"
    /\ tag_idx' = 1

\* all_media = get_media_func()
GetMedia(s) ==
    /\ main_pc = s
    /\ svc_pc = "get_media"
    /\ \E o \in {"ok", "exc"} :
          IF o = "ok"
          THEN /\ item_tags' = [i \in Items |->
                     IF i \in ItemsOf(s) THEN cat_item_tags[i] ELSE item_tags[i]]
               /\ svc_pc' = "create_tag"
               /\ tag_idx' = 1
               /\ UNCHANGED main_pc
          ELSE /\ AbortService(s)
               /\ UNCHANGED item_tags
    /\ UNCHANGED <<config, tmdb, all_media, untitled, tags_before, sidecar,
                   cat_tags, cat_item_tags, starts, run_no,
                   tags_id_to_label, tags_label_to_id, pc, retry_attempt, pend,
                   reason, aggregator, summaries, report, update_calls, prev_success,
                   gotify_errors>>

\* the catalog's answer to create_tag: a label it already holds is not
\* created again
EnsureTag(tags, label) ==
    IF label \in Range(tags) THEN tags ELSE Append(tags, label)

\* for provider in self.providers: api_client.create_tag(label)
CreateTag(s) ==
    /\ main_pc = s
    /\ svc_pc = "create_tag"
    /\ tag_idx <= Len(providers)
    /\ \E o \in {"ok", "exc"} :
          IF o = "ok"
          THEN /\ cat_tags' = [cat_tags EXCEPT ![s] = EnsureTag(@,
                     get_tag_label_for_provider(prefix, providers[tag_idx]))]
               /\ tag_idx' = tag_idx + 1
               /\ UNCHANGED <<main_pc, svc_pc>>
          ELSE /\ AbortService(s)
               /\ UNCHANGED cat_tags
    /\ UNCHANGED <<config, tmdb, all_media, untitled, tags_before, sidecar,
                   cat_item_tags, starts, run_no, item_tags,
                   tags_id_to_label, tags_label_to_id, pc, retry_attempt, pend,
                   reason, aggregator, summaries, report, update_calls, prev_success,
                   gotify_errors>>

\* the tag list as it was before the provider tags were created
IdToLabelReadEarly(all_tags) == SubSeq(all_tags, 1, Len(InitialTags))

\* {tag["id"]: tag["label"] for tag in all_tags}
IdToLabel(all_tags) == all_tags

\* {tag["label"]: tag["id"] for tag in all_tags}: a later tag wins
LabelToId(all_tags) ==
    [l \in Range(all_tags) |->
        CHOOSE k \in DOMAIN all_tags :
            /\ all_tags[k] = l
            /\ \A j \in DOMAIN all_tags : all_tags[j] = l => j <= k]

\* all_tags = api_client.get_tag(); the two dictionaries; executor.submit for
\* every item
GetTag(s) ==
    /\ main_pc = s
    /\ svc_pc = "create_tag"
    /\ tag_idx > Len(providers)
    /\ \E o \in {"ok", "exc"} :
          IF o = "ok"
          THEN /\ tags_id_to_label' = IdToLabel(cat_tags[s])
               /\ tags_label_to_id' = LabelToId(cat_tags[s])
               /\ pc' = [i \in Items |->
                     IF i \in ItemsOf(s) THEN "queued" ELSE pc[i]]
               /\ svc_pc' = "pool"
               /\ UNCHANGED <<main_pc, tag_idx>>
          ELSE /\ AbortService(s)
               /\ UNCHANGED <<tags_id_to_label, tags_label_to_id, pc>>
    /\ UNCHANGED <<config, tmdb, all_media, untitled, tags_before, sidecar,
                   cat_tags, cat_item_tags, starts, run_no, item_tags,
                   retry_attempt, pend, reason, aggregator, summaries, report,
                   update_calls, prev_success, gotify_errors>>

\* the executor's with-block ends when every future is done, with a result
\* or with an exception, which as_completed never asks for; the function
\* returns service_stats[service_name]['processed'] and run() appends it
FinishService(s) ==
    /\ main_pc = s
    /\ svc_pc = "pool"
    /\ \A i \in ItemsOf(s) : pc[i] \in {"done", "raised"}
    /\ summaries' = Append(summaries, <<s, service_stats[s].processed>>)
    /\ main_pc' = NextService(s)
    /\ svc_pc' = "get_media"
    /\ tag_idx' = 1
    /\ UNCHANGED <<config, tmdb, all_media, untitled, tags_before, sidecar,
                   cat_tags, cat_item_tags, starts, run_no, item_tags,
                   tags_id_to_label, tags_label_to_id, pc, retry_attempt, pend,
                   reason, aggregator, report, update_calls, prev_success,
                   gotify_errors>>

\* ----------------------------------------------- _process_single_item
\* one set of counters for everything: every item booked under Radarr
ServiceAlwaysRadarr(i) == "Radarr"

\* the service_name argument a worker is given for item i
ServiceOf(i) == i[1]

\* the future of item i is running in a worker thread
Running(i) == pc[i] \notin {"idle", "queued", "done", "raised"}

\* a pool that grows with the work: a thread for every submitted item
WorkerAlwaysFree(running) == TRUE

\* ThreadPoolExecutor(max_workers=MAX_WORKERS): a work item is taken from the
\* queue only by one of at most MAX_WORKERS threads that is not busy
WorkerFree(running) == Cardinality(running) < MAX_WORKERS

\* a record on which the subscript always fails
TitleNeverFound(i) == FALSE

\* title = item["title"], before the try: a KeyError when the key is missing
HasTitle(i) == i \notin untitled

\* a worker thread takes the oldest queued work item when fewer than
\* max_workers are busy; title, get_providers_func, update_media_func. The
\* KeyError of a record without title leaves the function and ends the future
Start(i) ==
    /\ pc[i] = "queued"
    /\ WorkerFree({j \in Items : Running(j)})
    /\ \A j \in ItemsOf(ServiceOf(i)) : pc[j] = "queued" => j[2] >= i[2]
    /\ pc' = [pc EXCEPT ![i] = IF HasTitle(i) THEN "resolve" ELSE "raised"]
    /\ retry_attempt' = [retry_attempt EXCEPT ![i] = 0]
    /\ UNCHANGED <<config, tmdb, all_media, untitled, tags_before, sidecar,
                   cat_tags, cat_item_tags, item_tags, service,
                   pend, reason, aggregator, driver, update_calls,
                   gotify_errors>>

\* an off-by-one in the retry test: one attempt too many
RetryAllowedOnceMore(attempt) == attempt < MAX_RETRIES

\* "if retry_attempt < MAX_RETRIES - 1": sleep and go round the loop again
RetryAllowed(attempt) == attempt < MAX_RETRIES - 1

\* error paths that call _log_change without appending to errors_log
RaiseUnlogged(i, kind) ==
    /\ pend' = [pend EXCEPT ![i] = NoPend]
    /\ pc' = [pc EXCEPT ![i] =
          IF kind = "net" /\ RetryAllowed(retry_attempt[i])
          THEN "sleep" ELSE "log_change"]
    /\ UNCHANGED reason

\* the except clauses: RequestException ("net") sleeps and retries, or falls
\* out of the loop after the last attempt; any other exception ("exc", and
\* "index" for the IndexError of [][0]) and a missing TMDb id ("notfound") go
\* straight to the error outcome
Raise(i, kind) ==
    /\ pend' = [pend EXCEPT ![i] = NoPend]
    /\ IF kind = "net" /\ RetryAllowed(retry_attempt[i])
       THEN /\ pc' = [pc EXCEPT ![i] = "sleep"]
            /\ UNCHANGED reason
       ELSE /\ pc' = [pc EXCEPT ![i] = "errors_log"]
            /\ reason' = [reason EXCEPT ![i] =
                  CASE kind = "net" -> NetworkReason
                    [] kind = "exc" -> ErrorReason
                    [] kind = "index" -> IndexErrorReason
                    [] kind = "notfound" -> NotFoundReason]

\* time.sleep(RETRY_DELAY_SECONDS), then the next iteration of the loop
Sleep(i) ==
    /\ pc[i] = "sleep"
    /\ retry_attempt' = [retry_attempt EXCEPT ![i] = @ + 1]
    /\ pc' = [pc EXCEPT ![i] = "resolve"]
    /\ UNCHANGED <<config, tmdb, all_media, untitled, tags_before, sidecar,
                   cat_tags, cat_item_tags, item_tags, service,
                   pend, reason, aggregator, driver, update_calls,
                   gotify_errors>>

\* tmdb_id = item.get("tmdbId") if media_type == "movie" else
\*   Find().find_by_tvdb_id(...).get("tv_results", [{}])[0].get("id")
\* x is what TMDb holds for the item, o what the network call does.
\* "id": an id; "none": a falsy id; "net", "exc", "index": the exception raised
TmdbId(mt, x, o) ==
    IF mt = "movie"
    THEN IF x = "found" THEN "id" ELSE "none"
    ELSE CASE o = "net" -> "net"
           [] o = "exc" -> "exc"
           [] o = "ok" /\ x = "found" -> "id"
           [] o = "ok" /\ x = "empty_list" -> "index"
           [] o = "ok" /\ x = "no_id" -> "none"

Resolve(i) ==
    /\ pc[i] = "resolve"
    /\ \E o \in CallOutcomes :
          LET r == TmdbId(media_type(ServiceOf(i)), xref[i], o) IN
          IF r = "id"
          THEN /\ pc' = [pc EXCEPT ![i] = "providers"]
               /\ UNCHANGED <<pend, reason>>
          ELSE Raise(i, IF r = "none" THEN "notfound" ELSE r)
    /\ UNCHANGED <<config, tmdb, all_media, untitled, tags_before, sidecar,
                   cat_tags, cat_item_tags, item_tags, service,
                   retry_attempt, aggregator, driver, update_calls,
                   gotify_errors>>

\* tags_id_to_label.get(tag_id, "")
LabelOrEmpty(id_to_label, tag_id) ==
    IF tag_id \in DOMAIN id_to_label THEN id_to_label[tag_id] ELSE << >>

\* a patch that only ever adds: every current tag is kept
KeptTagIdsAll(current, id_to_label, pfx) == current

\* the tag ids kept from the current set: those whose label does not start
\* with the prefix
KeptTagIds(current, id_to_label, pfx) ==
    {t \in current : ~startswith(LabelOrEmpty(id_to_label, t), pfx)}

\* the tag ids of the flatrate providers that are configured and whose label
\* has a (truthy) id
ProviderTagIds(flat, provs, label_to_id, pfx) ==
    {label_to_id[get_tag_label_for_provider(pfx, p)] :
        p \in {q \in flat :
                 /\ q \in Range(provs)
                 /\ get_tag_label_for_provider(pfx, q) \in DOMAIN label_to_id
                 /\ label_to_id[get_tag_label_for_provider(pfx, q)] # 0}}

\* new_tags_ids
NewTagsIds(current, id_to_label, label_to_id, pfx, provs, flat) ==
    KeptTagIds(current, id_to_label, pfx)
        \cup ProviderTagIds(flat, provs, label_to_id, pfx)

\* {tags_id_to_label.get(t) for t in ids if t}
LabelsOf(ids, id_to_label) ==
    {IF t \in DOMAIN id_to_label THEN id_to_label[t] ELSE <<"None">> :
        t \in {u \in ids : u # 0}}

\* a diff taken against item["tags"] after it was replaced: nothing is new
added_labels_after_replace(current, new, id_to_label) ==
    LabelsOf(new \ new, id_to_label)

added_labels(current, new, id_to_label) == LabelsOf(new \ current, id_to_label)
removed_labels(current, new, id_to_label) == LabelsOf(current \ new, id_to_label)

\* the fetched record left as it was until the update call has returned
ItemTagsLeftAlone(current, new) == current

\* item["tags"] = list(new_tags_ids), before the update call is made
ItemTagsForUpdate(current, new) == new

\* providers_response = get_providers_func(tmdb_id) ... item["tags"] = list(new)
Providers(i) ==
    /\ pc[i] = "providers"
    /\ \E o \in CallOutcomes :
          IF o = "ok"
          THEN LET current == item_tags[i]
                   new == NewTagsIds(current, tags_id_to_label,
                              tags_label_to_id, prefix, providers, flatrate[i])
               IN IF current # new
                  THEN /\ pend' = [pend EXCEPT ![i] =
                             [success |-> TRUE,
                              added |-> added_labels(current, new, tags_id_to_label),
                              removed |-> removed_labels(current, new, tags_id_to_label),
                              notify |-> TRUE]]
                       /\ item_tags' = [item_tags EXCEPT ![i] =
                             ItemTagsForUpdate(current, new)]
                       /\ pc' = [pc EXCEPT ![i] = "update"]
                       /\ UNCHANGED reason
                  ELSE /\ pend' = [pend EXCEPT ![i] =
                             [success |-> TRUE, added |-> {}, removed |-> {},
                              notify |-> FALSE]]
                       /\ pc' = [pc EXCEPT ![i] = "log_change"]
                       /\ UNCHANGED <<reason, item_tags>>
          ELSE /\ Raise(i, o)
               /\ UNCHANGED item_tags
    /\ UNCHANGED <<config, tmdb, all_media, untitled, tags_before, sidecar,
                   cat_tags, cat_item_tags, service,
                   retry_attempt, aggregator, driver, update_calls,
                   gotify_errors>>

\* a catalog that stores what it is sent although the call raises
StoredAnyway(o, old, new) == new

\* what the catalog holds after update_media_func: the tags it was sent when
\* the call returns, the tags it had when the call raises
Stored(o, old, new) == IF o = "ok" THEN new ELSE old

\* update_media_func(item): the catalog stores the tags it is sent
Update(i) ==
    /\ pc[i] = "update"
    /\ update_calls' = [update_calls EXCEPT ![i] = @ + 1]
    /\ \E o \in CallOutcomes :
          /\ cat_item_tags' = [cat_item_tags EXCEPT ![i] =
                Stored(o, @, item_tags[i])]
          /\ IF o = "ok"
             THEN /\ pc' = [pc EXCEPT ![i] = "log_change"]
                  /\ UNCHANGED <<pend, reason>>
             ELSE Raise(i, o)
    /\ UNCHANGED <<config, tmdb, all_media, untitled, tags_before, sidecar,
                   cat_tags, item_tags, service, retry_attempt,
                   aggregator, driver, gotify_errors>>

\* ------------------------------------------------------- aggregation
\* no mutual exclusion at all
LockIgnored(lock) == TRUE

\* "with self.changes_lock:" can be entered
LockFree(lock) == lock = NoOne

\* with self.changes_lock: self.errors_log.append({...})
ErrorsLogAppend(i) ==
    /\ pc[i] = "errors_log"
    /\ LockFree(changes_lock)
    /\ errors_log' = Append(errors_log,
          [service |-> ServiceOf(i), title |-> i, reason |-> reason[i]])
    /\ pc' = [pc EXCEPT ![i] = "log_change"]
    /\ UNCHANGED <<config, tmdb, all_media, untitled, tags_before, sidecar,
                   cat_tags, cat_item_tags, item_tags, service,
                   retry_attempt, pend, reason, stat_tmp, changes_lock,
                   changes_log, service_stats, driver, update_calls,
                   gotify_errors>>

\* change_parts is non-empty
HasChanges(added, removed) == added # {} \/ removed # {}

\* _log_change, first half: take the lock, append to changes_log, read the
\* service's counters for the "+= 1" that follows
LogChangeEnter(i) ==
    /\ pc[i] = "log_change"
    /\ LockFree(changes_lock)
    /\ changes_lock' = i
    /\ changes_log' = Append(changes_log,
          [service |-> ServiceOf(i), title |-> i,
           removed |-> pend[i].removed, added |-> pend[i].added])
    /\ stat_tmp' = [stat_tmp EXCEPT ![i] = service_stats[ServiceOf(i)]]
    /\ pc' = [pc EXCEPT ![i] = "log_stats"]
    /\ UNCHANGED <<config, tmdb, all_media, untitled, tags_before, sidecar,
                   cat_tags, cat_item_tags, item_tags, service,
                   retry_attempt, pend, reason, errors_log, service_stats,
                   driver, update_calls, gotify_errors>>

\* counters that leave failures out
CountedSuccessOnly(stats, success, changed) ==
    IF success
    THEN [stats EXCEPT !.processed = @ + 1,
                       !.updated = IF changed THEN @ + 1 ELSE @]
    ELSE stats

\* every outcome booked as a failure
CountedAsError(stats, success, changed) ==
    [stats EXCEPT !.errors = @ + 1]

\* the two success counters the wrong way round
CountedUpdatedFirst(stats, success, changed) ==
    IF success
    THEN [stats EXCEPT !.updated = @ + 1,
                       !.processed = IF changed THEN @ + 1 ELSE @]
    ELSE [stats EXCEPT !.errors = @ + 1]

\* the counters after one outcome
Counted(stats, success, changed) ==
    IF success
    THEN [stats EXCEPT !.processed = @ + 1,
                       !.updated = IF changed THEN @ + 1 ELSE @]
    ELSE [stats EXCEPT !.errors = @ + 1]

\* a with-block that leaves the lock with its holder
ReleaseSkipped(lock) == lock

\* the end of "with self.changes_lock:": the lock is released
Release(lock) == NoOne

\* _log_change, second half: store the incremented counters, release the lock.
\* Without a notification to send the function returns and its locals are gone
LogChangeExit(i) ==
    /\ pc[i] = "log_stats"
    /\ service_stats' = [service_stats EXCEPT ![ServiceOf(i)] =
          Counted(stat_tmp[i], pend[i].success,
                  HasChanges(pend[i].added, pend[i].removed))]
    /\ changes_lock' = Release(changes_lock)
    /\ stat_tmp' = [stat_tmp EXCEPT ![i] = ZeroStats]
    /\ pc' = [pc EXCEPT ![i] = IF pend[i].notify THEN "notify" ELSE "done"]
    /\ retry_attempt' = [retry_attempt EXCEPT ![i] =
          IF pend[i].notify THEN @ ELSE 0]
    /\ UNCHANGED <<config, tmdb, all_media, untitled, tags_before, sidecar,
                   cat_tags, cat_item_tags, item_tags, service,
                   pend, reason, changes_log, errors_log, driver, update_calls,
                   gotify_errors>>

\* a send_notification without its try/except: the caller sees what the
\* Gotify client raised
send_notification_unguarded(o) == o

\* send_notification: what its caller sees when gotify.create_message did o;
\* "except Exception" catches everything the client raises
send_notification(o) == "ok"

\* self.send_notification(...), called inside the try of the retry loop: a
\* failure of the Gotify client is logged inside send_notification; then
\* return True
Notify(i) ==
    /\ pc[i] = "notify"
    /\ \E o \in CallOutcomes :
          /\ gotify_errors' = IF o = "ok" THEN gotify_errors
                                         ELSE gotify_errors \cup {i}
          /\ IF send_notification(o) = "ok"
             THEN /\ pc' = [pc EXCEPT ![i] = "done"]
                  /\ retry_attempt' = [retry_attempt EXCEPT ![i] = 0]
                  /\ UNCHANGED <<pend, reason>>
             ELSE /\ Raise(i, send_notification(o))
                  /\ UNCHANGED retry_attempt
    /\ UNCHANGED <<config, tmdb, all_media, untitled, tags_before, sidecar,
                   cat_tags, cat_item_tags, item_tags,
                   service, aggregator, driver, update_calls>>

\* ------------------------------------------------------------ run()
RECURSIVE SumProcessed(_)
SumProcessed(ss) ==
    IF ss = {} THEN 0
    ELSE LET s == CHOOSE x \in ss : TRUE
         IN service_stats[s].processed + SumProcessed(ss \ {s})

\* _print_changes_summary
PrintChangesSummary ==
    /\ main_pc = "summary"
    /\ report' =
          IF SumProcessed(Services) = 0
          THEN [kind |-> "no_items"]
          ELSE [kind |-> "full",
                changes |-> SelectSeq(changes_log,
                               LAMBDA c : HasChanges(c.added, c.removed)),
                issues |-> errors_log,
                stats |-> service_stats]
    /\ main_pc' = "finished"
    /\ UNCHANGED <<config, tmdb, all_media, untitled, tags_before, sidecar,
                   cat_tags, cat_item_tags, item_tags, service,
                   pc, retry_attempt, pend, reason, aggregator, starts,
                   run_no, summaries, prev_success, update_calls,
                   gotify_errors>>

\* the script is started again against the same catalogs and the same TMDb
\* data: a new process, Elsewherr.__init__
StartAgain ==
    /\ main_pc = "finished"
    /\ run_no < starts
    /\ run_no' = run_no + 1
    /\ prev_success' = {i \in Items : pc[i] = "done" /\ pend[i].success}
    /\ main_pc' = "Radarr"
    /\ svc_pc' = "get_media"
    /\ tag_idx' = 1
    /\ item_tags' = [i \in Items |-> {}]
    /\ tags_id_to_label' = NoTags
    /\ tags_label_to_id' = NoTags
    /\ pc' = [i \in Items |-> "idle"]
    /\ retry_attempt' = [i \in Items |-> 0]
    /\ pend' = [i \in Items |-> NoPend]
    /\ reason' = [i \in Items |-> ""]
    /\ stat_tmp' = [i \in Items |-> ZeroStats]
    /\ changes_lock' = NoOne
    /\ changes_log' = << >>
    /\ errors_log' = << >>
    /\ service_stats' = [s \in Services |-> ZeroStats]
    /\ summaries' = << >>
    /\ report' = [kind |-> "none"]
    /\ update_calls' = [i \in Items |-> 0]
    /\ gotify_errors' = {}
    /\ tags_before' = cat_item_tags
    /\ UNCHANGED <<config, tmdb, all_media, untitled, sidecar,
                   cat_tags, cat_item_tags, starts>>

Next ==
    \/ \E s \in Services : GetMedia(s)
    \/ \E s \in Services : CreateTag(s)
    \/ \E s \in Services : GetTag(s)
    \/ \E s \in Services : FinishService(s)
    \/ \E i \in Items : Start(i)
    \/ \E i \in Items : Resolve(i)
    \/ \E i \in Items : Providers(i)
    \/ \E i \in Items : Update(i)
    \/ \E i \in Items : Sleep(i)
    \/ \E i \in Items : ErrorsLogAppend(i)
    \/ \E i \in Items : LogChangeEnter(i)
    \/ \E i \in Items : LogChangeExit(i)
    \/ \E i \in Items : Notify(i)
    \/ PrintChangesSummary
    \/ StartAgain

Spec == Init /\ [][Next]_vars

\* the same program in front of a catalog with a record without title
SpecUntitled == InitUntitled /\ [][Next]_vars

\* the steps of one worker thread on item i
WorkerStep(i) ==
    \/ Start(i)
    \/ Resolve(i)
    \/ Providers(i)
    \/ Update(i)
    \/ Sleep(i)
    \/ ErrorsLogAppend(i)
    \/ LogChangeEnter(i)
    \/ LogChangeExit(i)
    \/ Notify(i)

\* the steps of the main thread in _process_service(s)
ServiceStep(s) ==
    \/ GetMedia(s)
    \/ CreateTag(s)
    \/ GetTag(s)
    \/ FinishService(s)

\* every network call returns or raises, time.sleep ends, and the interpreter
\* runs every thread that can run: the main thread in run(), blocked only in
\* the executor's with-block, and each worker thread, blocked only at
\* changes_lock. Starting the script again is left to its user.
Fairness ==
    /\ \A s \in Services : WF_vars(ServiceStep(s))
    /\ \A i \in Items : WF_vars(WorkerStep(i))
    /\ WF_vars(PrintChangesSummary)

\* the starts followed to their end: more work items than workers, or the
\* script started a second time
InitFair ==
    /\ Init
    /\ all_media = LargeLibrary \/ starts > 1

SpecFair == InitFair /\ [][Next]_vars /\ Fairness

\* ====================================================== sidecar scripts
\* radarr_tags_to_jellyfin_nfo.py and sonarr_tags_to_jellyfin_nfo.py: each
\* reads the tags of one catalog and rewrites the <tag> elements of the NFO
\* file of every item the catalog lists. An NFO file is modelled by the texts
\* of its <tag> elements, in document order; << >> is an element without text.

\* the characters of the alphabet in code-point order
CodePoints ==
    <<" ", "+", "-", "1", "B", "D", "F", "H", "S", "X", "Z",
      "b", "d", "f", "h", "s", "x", "z">>
ord(c) == CHOOSE k \in DOMAIN CodePoints : CodePoints[k] = c

\* a < b on str
StrLess(a, b) ==
    \E k \in 1..(Len(a) + 1) :
        /\ k <= Len(b)
        /\ SubSeq(a, 1, k - 1) = SubSeq(b, 1, k - 1)
        /\ k <= Len(a) => ord(a[k]) < ord(b[k])

\* sorted(list(labels))
sorted(labels) ==
    CHOOSE q \in [1..Cardinality(labels) -> labels] :
        \A a, b \in 1..Cardinality(labels) : a < b => StrLess(q[a], q[b])

\* {tags_id_to_label.get(tag_id) for tag_id in item.get('tags', [])
\*    if tags_id_to_label.get(tag_id)}
all_labels(tag_ids, id_to_label) ==
    {id_to_label[t] : t \in {u \in tag_ids : /\ u \in DOMAIN id_to_label
                                             /\ id_to_label[u] # << >>}}

\* {label for label in all_labels if label.startswith(TAG_PREFIX)}
elsewherr_labels_to_sync(labels, pfx) == {l \in labels : startswith(l, pfx)}

\* {elem.text for elem in root.findall('./tag') if elem.text}
current_nfo_labels(tags) == {tags[k] : k \in {j \in DOMAIN tags : tags[j] # << >>}}

\* the movie script: the NFO labels that are no Radarr label of the movie,
\* and the prefixed Radarr labels
final_tag_labels(tags, labels, pfx) ==
    {l \in current_nfo_labels(tags) : l \notin labels}
        \cup elsewherr_labels_to_sync(labels, pfx)

\* the movie script, lines 96-117: every <tag> element is removed and one is
\* appended per final label, in sorted order, when the two sets differ
RadarrNfoTags(tags, labels, pfx) ==
    IF final_tag_labels(tags, labels, pfx) # current_nfo_labels(tags)
    THEN sorted(final_tag_labels(tags, labels, pfx))
    ELSE tags

\* the series script: elem.text and elem.text.startswith(TAG_PREFIX)
HasPrefix(text, pfx) == text # << >> /\ startswith(text, pfx)
current_nfo_tags_with_prefix(tags, pfx) ==
    {tags[k] : k \in {j \in DOMAIN tags : HasPrefix(tags[j], pfx)}}

\* a series script without the comparison at line 97: the prefixed elements
\* are always removed and appended again
SonarrNfoTagsAlwaysWritten(tags, labels, pfx) ==
    SelectSeq(tags, LAMBDA t : ~HasPrefix(t, pfx))
        \o sorted(elsewherr_labels_to_sync(labels, pfx))

\* the series script, lines 92-122: nothing is written when the prefixed sets
\* agree; else the prefixed elements are removed and one is appended per
\* label to sync, in sorted order
SonarrNfoTags(tags, labels, pfx) ==
    IF current_nfo_tags_with_prefix(tags, pfx)
          = elsewherr_labels_to_sync(labels, pfx)
    THEN tags
    ELSE SelectSeq(tags, LAMBDA t : ~HasPrefix(t, pfx))
            \o sorted(elsewherr_labels_to_sync(labels, pfx))

\* texts of <tag> elements: a genre, a tag under the prefix that no catalog
\* holds, and labels of InitialTags
Genre == <<"x">>
Stale == <<"s", "-", "x">>

\* the NFO files followed: the item has no path, the file is missing, it is
\* not well-formed, or it parses with these <tag> elements
NfoCases ==
    { [file |-> "nopath", tags |-> << >>],
      [file |-> "missing", tags |-> << >>],
      [file |-> "broken", tags |-> << >>] }
    \cup { [file |-> "ok", tags |-> t] :
             t \in { << >>,
                     <<Genre>>,
                     <<InitialTags[2]>>,
                     <<Genre, InitialTags[2]>>,
                     <<Stale, InitialTags[1]>>,
                     <<InitialTags[3], Genre, InitialTags[2]>>,
                     << << >>, InitialTags[3], Genre >> } }

\* the tag ids the catalog may store for an item when a script is run
SyncTagCases == { {}, {1}, {2}, {1, 3}, {2, 3} }

\* one of the two scripts is started against a catalog as a run of Elsewherr
\* may have left it
InitNfo ==
    /\ prefix \in Prefixes
    /\ providers = <<Hb, DPlus>>
    /\ starts = 1
    /\ all_media = SmallLibrary
    /\ untitled = {}
    /\ xref = [i \in Items |-> "none"]
    /\ flatrate = [i \in Items |-> {}]
    /\ cat_tags = [s \in Services |-> InitialTags]
    /\ run_no = 1
    /\ prev_success = {}
    /\ FreshProcess
    /\ sync_svc \in Services
    /\ sync_pc = "connect"
    /\ sync_idx = 1
    /\ updated_count = 0
    /\ cat_item_tags \in [Items -> SyncTagCases \cup {{}}]
    /\ \A i \in Items \ ItemsOf(sync_svc) : cat_item_tags[i] = {}
    /\ \A i \in ItemsOf(sync_svc) : cat_item_tags[i] \in SyncTagCases
    /\ tags_before = cat_item_tags
    /\ nfo \in [Items -> NfoCases]
    /\ \A i \in Items \ ItemsOf(sync_svc) : nfo[i] = NoNfo

\* what Elsewherr itself holds is left alone by the scripts
elsewherr ==
    <<config, tmdb, all_media, untitled, tags_before, cat_tags, cat_item_tags,
      item_tags,
      service, pc, retry_attempt, pend, reason, aggregator, driver, update_calls,
      gotify_errors>>

\* RadarrAPI(...) / SonarrAPI(...), get_tag(): on an exception the script
\* logs "Failed to connect" and returns
SyncConnect ==
    /\ sync_pc = "connect"
    /\ \E o \in {"ok", "exc"} :
          sync_pc' = IF o = "ok" THEN "list" ELSE "finished"
    /\ UNCHANGED <<elsewherr, nfo, sync_svc, sync_idx, updated_count>>

\* movies = radarr.get_movie() / series_list = sonarr.get_series(), outside
\* any try: an exception ends the script
SyncList ==
    /\ sync_pc = "list"
    /\ \E o \in {"ok", "exc"} :
          sync_pc' = IF o = "ok" THEN "loop" ELSE "crashed"
    /\ sync_idx' = 1
    /\ UNCHANGED <<elsewherr, nfo, sync_svc, updated_count>>

\* the item the loop is at
SyncItemAt(k) == <<sync_svc, k>>

\* one iteration of "for movie in movies" / "for series in series_list"
SyncItem ==
    /\ sync_pc = "loop"
    /\ SyncItemAt(sync_idx) \in ItemsOf(sync_svc)
    /\ LET i == SyncItemAt(sync_idx)
           labels == all_labels(cat_item_tags[i], IdToLabel(cat_tags[sync_svc]))
           new == IF sync_svc = "Radarr"
                  THEN RadarrNfoTags(nfo[i].tags, labels, prefix)
                  ELSE SonarrNfoTags(nfo[i].tags, labels, prefix)
       IN IF nfo[i].file = "ok" /\ new # nfo[i].tags
          THEN /\ nfo' = [nfo EXCEPT ![i].tags = new]
               /\ updated_count' = updated_count + 1
          ELSE UNCHANGED <<nfo, updated_count>>
    /\ sync_idx' = sync_idx + 1
    /\ UNCHANGED <<elsewherr, sync_svc, sync_pc>>

\* "--- Script finished ---"
SyncFinish ==
    /\ sync_pc = "loop"
    /\ SyncItemAt(sync_idx) \notin ItemsOf(sync_svc)
    /\ sync_pc' = "finished"
    /\ UNCHANGED <<elsewherr, nfo, sync_svc, sync_idx, updated_count>>

NextNfo ==
    \/ SyncConnect
    \/ SyncList
    \/ SyncItem
    \/ SyncFinish

SpecNfo == InitNfo /\ [][NextNfo]_vars

\* ================================================================ claims
\* the catalog's own view of an item's service: the managed tags are those
\* whose label starts with the configured prefix, the others are foreign
LabelInCatalog(s, t) ==
    IF t \in DOMAIN cat_tags[s] THEN cat_tags[s][t] ELSE << >>
ManagedIds(s) == {t \in DOMAIN cat_tags[s] : startswith(cat_tags[s][t], prefix)}
ForeignOf(s, ids) == {t \in ids : ~startswith(LabelInCatalog(s, t), prefix)}

\* the tag the catalog holds for a provider
TagIdOfProvider(s, p) ==
    CHOOSE t \in DOMAIN cat_tags[s] :
        cat_tags[s][t] = get_tag_label_for_provider(prefix, p)

\* the providers offered for the item and configured
OfferedAndConfigured(i) == flatrate[i] \cap Range(providers)

\* desired = (current \ managed) \cup {tag_id(p) : p offered and configured}
DesiredTags(i, current) ==
    (current \ ManagedIds(ServiceOf(i)))
        \cup {TagIdOfProvider(ServiceOf(i), p) : p \in OfferedAndConfigured(i)}

\* the attempt of item i has just computed new_tags_ids (left in item_tags')
\* from the current set item_tags
Computed(i) ==
    /\ pc[i] = "providers"
    /\ pc'[i] \in {"update", "log_change"}

\* C1: the foreign tags of an item are never altered: whenever an update is
\* about to be sent, the tags of the desired set whose label lacks the
\* configured prefix are exactly those of the item's current set.
C1_ForeignTagsNeverAltered ==
    \A i \in Items :
        pc[i] = "update" =>
            ForeignOf(ServiceOf(i), item_tags[i])
                = ForeignOf(ServiceOf(i), cat_item_tags[i])

\* C2: the tag set computed for an item is (current minus the managed tags)
\* united with the tags of the providers offered and configured; so every
\* managed tag of a provider not offered-and-configured is gone and the tag of
\* every offered-and-configured provider is present.
C2_DesiredSetComputed ==
    [][\A i \in Items :
          Computed(i) =>
             /\ item_tags'[i] = DesiredTags(i, item_tags[i])
             /\ \A p \in OfferedAndConfigured(i) :
                   TagIdOfProvider(ServiceOf(i), p) \in item_tags'[i]
             /\ \A t \in item_tags[i] \cap ManagedIds(ServiceOf(i)) :
                   (\A p \in OfferedAndConfigured(i) :
                       t # TagIdOfProvider(ServiceOf(i), p))
                   => t \notin item_tags'[i]]_vars

\* C2 witness: an update is pending that removes a managed tag and adds a
\* provider's tag, under the prefix as configured in lower case
C2_Witness ==
    \E i \in Items :
        /\ pc[i] = "update"
        /\ prefix = PrefixLower
        /\ cat_item_tags[i] \ item_tags[i] # {}
        /\ item_tags[i] \ cat_item_tags[i] # {}

\* C3: a second run with unchanged availability data issues no update call
\* for any item the first run recorded as processed.
C3_SecondRunWritesNothing ==
    \A i \in Items :
        (run_no > 1 /\ i \in prev_success) => update_calls[i] = 0

\* C4: an item recorded as a success has, once its worker is done, the
\* desired tag set in the catalog (a failed update call having been made
\* again on the next attempt).
C4_SuccessMeansCatalogUpdated ==
    \A i \in Items :
        (pc[i] = "done" /\ pend[i].success) =>
            cat_item_tags[i] = DesiredTags(i, cat_item_tags[i])

\* the item's attempt is past its last try: an outcome is pending or recorded
Settled(i) == pc[i] \in {"errors_log", "log_change", "log_stats", "notify", "done"}
Attempting(i) == pc[i] \in {"resolve", "providers", "update", "sleep"}

\* the attempts made for item i so far, while its worker runs
AttemptsMade(i) == retry_attempt[i] + 1

\* C5 (as stated): a connectivity error is recorded after exactly MAX_RETRIES
\* attempts, a non-network error after exactly one attempt.
C5_ErrorAfterExactAttempts ==
    \A i \in Items :
        pc[i] = "errors_log" =>
            /\ reason[i] = NetworkReason => AttemptsMade(i) = MAX_RETRIES
            /\ reason[i] \in {ErrorReason, IndexErrorReason} => AttemptsMade(i) = 1

\* C5 (amended): an item is recorded with the network reason after exactly
\* MAX_RETRIES attempts; no item is ever attempted more than MAX_RETRIES
\* times; an error of any other kind is recorded by the attempt that raised
\* it, which is the first one unless connectivity errors came before it; once
\* an outcome is pending no further attempt is made for the item in that run.
C5_RetryBound ==
    /\ [](\A i \in Items :
            /\ Running(i) => AttemptsMade(i) <= MAX_RETRIES
            /\ (pc[i] = "errors_log" /\ reason[i] = NetworkReason)
                  => AttemptsMade(i) = MAX_RETRIES)
    /\ [][\A i \in Items :
            /\ (Settled(i) /\ run_no' = run_no) => ~Attempting(i)'
            /\ (Attempting(i) /\ pc'[i] = "errors_log"
                   /\ reason'[i] # NetworkReason)
                  => retry_attempt'[i] = retry_attempt[i]
            /\ (Attempting(i) /\ Attempting(i)'
                   /\ retry_attempt'[i] # retry_attempt[i])
                  => pc[i] = "sleep" /\ retry_attempt'[i] = retry_attempt[i] + 1]_vars

\* C5 witness: one item is being recorded after its third connectivity error
\* while another was recorded for a non-network error on its second attempt
C5_Witness ==
    \E i, j \in Items :
        /\ pc[i] = "errors_log" /\ reason[i] = NetworkReason
        /\ AttemptsMade(i) = MAX_RETRIES
        /\ pc[j] = "errors_log" /\ reason[j] = ErrorReason
        /\ AttemptsMade(j) = 2

\* the entries of a log that belong to item i / to service s
EntriesOfItem(log, i) == {k \in DOMAIN log : log[k].title = i}
EntriesOfService(log, s) == {k \in DOMAIN log : log[k].service = s}

C7_AtMostOneUpdateCall ==
    /\ [](\A i \in Items : update_calls[i] <= 1)
    /\ [][\A i \in Items :
            /\ Computed(i) =>
                  (pc'[i] = "update"
                      <=> DesiredTags(i, item_tags[i]) # item_tags[i])
            /\ (pc[i] = "update" /\ pc'[i] # "update")
                  => update_calls'[i] = update_calls[i] + 1
            /\ (pc[i] # "update" /\ run_no' = run_no)
                  => update_calls'[i] = update_calls[i]]_vars

\* C7 witness: an item is done after its one update call failed on the
\* network and a later attempt went through
C7_Witness ==
    \E i \in Items :
        /\ pc[i] = "done"
        /\ pend[i].success
        /\ update_calls[i] = 1
        /\ cat_item_tags[i] # item_tags[i]

\* C8: an item whose lookup returns no match is recorded with the reason
\* 'TMDB ID not found.' and no update call is issued for it.
C8_NoMatchIsNotFound ==
    \A k \in DOMAIN errors_log :
        LET e == errors_log[k] IN
        (xref[e.title] # "found" /\ e.reason \notin {NetworkReason, ErrorReason})
            => e.reason = NotFoundReason /\ update_calls[e.title] = 0

\* C9: once the workers of a service have all returned, the change log holds
\* one entry per item of the service and processed + errors equals their
\* number.
C9_NothingLost ==
    \A s \in Services :
        (\A i \in ItemsOf(s) : pc[i] = "done")
            => /\ Cardinality(EntriesOfService(changes_log, s))
                    = Cardinality(ItemsOf(s))
               /\ service_stats[s].processed + service_stats[s].errors
                    = Cardinality(ItemsOf(s))

\* C9 witness: two workers at _log_change at once, one inside the lock and the
\* other waiting for it, and later all outcomes counted
C9_Witness ==
    \E i, j \in Items :
        /\ i # j
        /\ pc[i] = "log_stats"
        /\ pc[j] = "log_change"
        /\ changes_lock = i

\* the labels the catalog gives to a set of tag ids
CatalogLabels(s, ids) == {cat_tags[s][t] : t \in ids}

\* C10: for an item that is updated, the recorded added labels are those of
\* desired minus current and the removed ones those of current minus desired,
\* taken before the tags are replaced; the two are disjoint.
C10_DiffRecorded ==
    \A i \in Items :
        /\ pc[i] = "update" =>
              /\ pend[i].added = CatalogLabels(ServiceOf(i),
                     DesiredTags(i, cat_item_tags[i]) \ cat_item_tags[i])
              /\ pend[i].removed = CatalogLabels(ServiceOf(i),
                     cat_item_tags[i] \ DesiredTags(i, cat_item_tags[i]))
              /\ pend[i].added \cap pend[i].removed = {}
        /\ \A k \in EntriesOfItem(changes_log, i) :
              /\ changes_log[k].added = pend[i].added
              /\ changes_log[k].removed = pend[i].removed
              /\ changes_log[k].added \cap changes_log[k].removed = {}

\* C10 witness: an updated item whose entry lists a label added and a label
\* removed
C10_Witness ==
    \E i \in Items : \E k \in EntriesOfItem(changes_log, i) :
        /\ pc[i] = "notify"
        /\ changes_log[k].added # {}
        /\ changes_log[k].removed # {}

\* C11: when the availability query of an item failed on the network on
\* attempts 1 and 2 and returns on attempt 3, the item gets its update call
\* exactly when its diff is non-empty, and that call is its only one; the
\* outcome pending and then counted is a success; nothing was recorded for
\* the two failed attempts: no entry of the change log before the outcome and
\* no entry of the error log at all.
C11_ThirdAttemptSucceeds ==
    /\ [](\A i \in Items :
            pend[i].success => EntriesOfItem(errors_log, i) = {})
    /\ [][\A i \in Items :
            LET s == ServiceOf(i) IN
            /\ (pc[i] = "providers" /\ retry_attempt[i] = MAX_RETRIES - 1
                  /\ update_calls[i] = 0
                  /\ pc'[i] \notin {"providers", "errors_log"})
                 => /\ pc'[i] = IF DesiredTags(i, cat_item_tags[i]) # cat_item_tags[i]
                                THEN "update" ELSE "log_change"
                    /\ pend'[i].success
                    /\ update_calls'[i] = 0
                    /\ EntriesOfItem(changes_log', i) = {}
                    /\ EntriesOfItem(errors_log', i) = {}
            /\ (pc[i] = "update" /\ retry_attempt[i] = MAX_RETRIES - 1
                  /\ pc'[i] = "log_change")
                 => /\ update_calls'[i] = 1
                    /\ pend'[i].success
                    /\ cat_item_tags'[i] = DesiredTags(i, cat_item_tags[i])
            /\ (pc[i] = "log_stats" /\ retry_attempt[i] = MAX_RETRIES - 1
                  /\ pend[i].success /\ pc'[i] # "log_stats")
                 => /\ service_stats'[s].processed = service_stats[s].processed + 1
                    /\ service_stats'[s].errors = service_stats[s].errors
                    /\ update_calls'[i] = update_calls[i]
                    /\ update_calls[i] <= 1
                    /\ EntriesOfItem(errors_log', i) = {}]_vars

\* C11 witness: a movie (its TMDb id needs no network call, so both failures
\* were the availability query's) counted as processed on its third attempt,
\* after its one update call went through
C11_Witness ==
    \E i \in Movies :
        /\ pc[i] = "notify"
        /\ retry_attempt[i] = MAX_RETRIES - 1
        /\ pend[i].success /\ pend[i].added # {}
        /\ update_calls[i] = 1
        /\ cat_item_tags[i] = item_tags[i]
        /\ service_stats[ServiceOf(i)].processed > 0
        /\ EntriesOfItem(errors_log, i) = {}

\* run() is past service s
Past(s) ==
    main_pc \in (IF s = "Radarr" THEN {"Sonarr", "summary", "finished"}
                                 ELSE {"summary", "finished"})

\* the service after s in run(), as the text of run() orders them
FollowingService(s) == IF s = "Radarr" THEN "Sonarr" ELSE "summary"

\* run() is past s and no item of s was fetched: the client could not be
\* built or get_movie / get_series raised
GetMediaFailedFor(s) ==
    /\ Past(s)
    /\ ItemsOf(s) # {}
    /\ \A i \in ItemsOf(s) : pc[i] = "idle" /\ item_tags[i] = {}

\* every worker of s has returned and run() holds the count of s
Completed(s) ==
    /\ \A i \in ItemsOf(s) : pc[i] = "done"
    /\ \E k \in DOMAIN summaries : summaries[k][1] = s

\* nothing at all was recorded or written for service s
Untouched(s) ==
    /\ service_stats[s] = ZeroStats
    /\ EntriesOfService(changes_log, s) = {}
    /\ EntriesOfService(errors_log, s) = {}
    /\ \A i \in ItemsOf(s) : update_calls[i] = 0 /\ ~Running(i)
    /\ \A k \in DOMAIN summaries : summaries[k][1] # s

\* C12: when the catalog of a service cannot be reached or its items cannot be
\* listed, run() goes on with what follows that service; no item of the
\* service is started, counted, logged or updated; what the other service
\* recorded stays as it is and the other service is run whatever became of
\* this one; the run ends with the final report.
C12_ListingFailureAbortsOneService ==
    /\ [](\A s \in Services :
            /\ GetMediaFailedFor(s) => Untouched(s)
            /\ (Past(s) /\ ~Completed(s)) =>
                  \A i \in ItemsOf(s) : pc[i] = "idle" /\ update_calls[i] = 0)
    /\ [](main_pc = "finished" => report.kind # "none")
    /\ [][\A s \in Services :
            (main_pc = s /\ svc_pc = "get_media" /\ main_pc' # s)
              => /\ main_pc' = FollowingService(s)
                 /\ svc_pc' = "get_media"
                 /\ ItemsOf(s) # {} => GetMediaFailedFor(s)'
                 /\ Untouched(s)'
                 /\ UNCHANGED <<pc, cat_tags, cat_item_tags, changes_log,
                                errors_log, service_stats, summaries,
                                update_calls>>]_vars

\* C12 witness: the run has ended with its report; the movies could not be
\* listed, and the series were all processed and counted
C12_Witness ==
    /\ main_pc = "finished"
    /\ report.kind = "full"
    /\ GetMediaFailedFor("Radarr")
    /\ Completed("Sonarr")
    /\ service_stats["Sonarr"].processed > 0

\* the entries of the change log that carry a change
ActualChanges == SelectSeq(changes_log, LAMBDA c : HasChanges(c.added, c.removed))

\* C13: once the run has ended, the final report lists every change of the
\* change log, every entry of the error log with its reason, and the counters
\* of every service that counted anything, whatever the outcomes were, also
\* when every submitted item ended as an error.
C13_ReportListsEverything ==
    main_pc = "finished" =>
        /\ ActualChanges # << >> =>
              report.kind = "full" /\ report.changes = ActualChanges
        /\ errors_log # << >> =>
              report.kind = "full" /\ report.issues = errors_log
        /\ (\E s \in Services : service_stats[s] # ZeroStats) =>
              report.kind = "full" /\ report.stats = service_stats

\* normalize(providerName): what is outside [A-Za-z0-9] removed, the rest in
\* lower case
Normalized(provider_name) == Lower(Sanitize(provider_name))

\* C14: the label of a provider's tag is the configured prefix, unchanged,
\* followed by the normalized provider name: every tag the program has
\* created in a catalog carries such a label for one of the configured
\* providers, and the label computed for any provider name is that one.
C14_LabelKeepsPrefix ==
    \A s \in Services : \A k \in DOMAIN cat_tags[s] :
        k > Len(InitialTags) =>
            /\ \E p \in Range(providers) :
                  cat_tags[s][k] = prefix \o Normalized(p)
            /\ \A p \in ProviderNames :
                  get_tag_label_for_provider(prefix, p) = prefix \o Normalized(p)

\* the items whose worker is running
Busy == {i \in Items : Running(i)}

InPool(i) == pc[i] \notin {"idle", "done"}

\* C16: while any item of a service is queued or being processed, the loop
\* creating the managed tags has ended, the catalog holds the tag of every
\* configured provider, and the two mappings are the ones built from the tag
\* list read after that; the mappings change only where _process_service
\* builds them (or a new process starts), at a moment when no worker runs,
\* never in a step of a worker.
C16_TagSnapshotBeforeWorkers ==
    /\ [](\A i \in Items :
            InPool(i) =>
               LET s == ServiceOf(i) IN
               /\ main_pc = s /\ svc_pc = "pool"
               /\ tag_idx > Len(providers)
               /\ \A k \in DOMAIN providers :
                     /\ get_tag_label_for_provider(prefix, providers[k])
                           \in Range(cat_tags[s])
                     /\ get_tag_label_for_provider(prefix, providers[k])
                           \in Range(tags_id_to_label)
                     /\ get_tag_label_for_provider(prefix, providers[k])
                           \in DOMAIN tags_label_to_id
               /\ tags_id_to_label = cat_tags[s]
               /\ \A l \in DOMAIN tags_label_to_id :
                     cat_tags[s][tags_label_to_id[l]] = l)
    /\ [][(tags_id_to_label' # tags_id_to_label
             \/ tags_label_to_id' # tags_label_to_id)
            => /\ \A i \in Items : ~InPool(i) /\ pc'[i] \in {"idle", "queued"}
               /\ \/ svc_pc = "create_tag" /\ svc_pc' = "pool"
                  \/ run_no' = run_no + 1]_vars

\* C16 witness: a worker is at its availability query with mappings that
\* hold a tag created in this service run
C16_Witness ==
    \E i \in Items :
        /\ pc[i] = "providers"
        /\ Len(tags_id_to_label) > Len(InitialTags)
        /\ tags_id_to_label = cat_tags[ServiceOf(i)]

\* worker i is inside the with-block of _log_change
InLogChange(i) == pc[i] = "log_stats"

\* worker i is at a network call or at the retry pause
AtNetworkOrPause(i) == pc[i] \in {"resolve", "providers", "update", "notify", "sleep"}

\* C17: the lock has one holder at most, and the holder is a worker inside
\* the with-block of _log_change, so never one at the id lookup, the
\* availability query, the update call, the notification or the retry pause;
\* the logs and the counters change only in a step that takes, holds or
\* releases the lock, and the lock is free again when the step that appends
\* to the error log has ended.
C17_LockOnlyAroundBookkeeping ==
    /\ [](/\ changes_lock \in Items \cup {NoOne}
          /\ Cardinality({i \in Items : InLogChange(i)}) <= 1
          /\ \A i \in Items :
                /\ changes_lock = i <=> InLogChange(i)
                /\ AtNetworkOrPause(i) => changes_lock # i)
    /\ [][\A i \in Items :
            /\ (AtNetworkOrPause(i) /\ pc'[i] # pc[i])
                  => changes_lock # i /\ changes_lock' # i
            /\ (run_no' = run_no /\ pc'[i] # pc[i]
                   /\ errors_log' # errors_log)
                  => /\ changes_lock = NoOne /\ changes_lock' = NoOne
                     /\ pc[i] = "errors_log"
            /\ (run_no' = run_no /\ pc'[i] # pc[i]
                   /\ changes_log' # changes_log)
                  => changes_lock = NoOne /\ changes_lock' = i
            /\ (run_no' = run_no /\ pc'[i] # pc[i]
                   /\ service_stats' # service_stats)
                  => changes_lock = i /\ changes_lock' = NoOne]_vars

\* C17 witness: one worker holds the lock inside _log_change while a second
\* waits to append its error, an update call having been sent in this run
C17_Witness ==
    \E i, j \in Items :
        /\ changes_lock = i /\ InLogChange(i)
        /\ pc[j] = "errors_log"
        /\ \E k \in Items : update_calls[k] > 0

\* the counters of the movie catalog and of the series catalog
RadarrStats == service_stats["Radarr"]
SonarrStats == service_stats["Sonarr"]

\* C18: the catalogs are processed one after the other: while run() is at
\* Sonarr, and whenever a series is queued, being processed or done, no movie
\* is queued or being processed; the step of a movie's worker changes no
\* counter of Sonarr and the step of a series' worker none of Radarr, and
\* each counted outcome adds one to a counter of the item's own service.
C18_ServicesOneAfterTheOther ==
    /\ [](/\ main_pc = "Sonarr" => \A j \in Movies : ~InPool(j)
          /\ \A i \in Series : \A j \in Movies :
                pc[i] # "idle" => ~InPool(j)
          /\ \A i \in Movies : InPool(i) => main_pc = "Radarr"
          /\ \A i \in Series : InPool(i) => main_pc = "Sonarr")
    /\ [][\A i \in Items :
            (run_no' = run_no /\ pc'[i] # pc[i])
              => /\ i \in Movies => SonarrStats' = SonarrStats
                 /\ i \in Series => RadarrStats' = RadarrStats
                 /\ (pc[i] = "log_stats") =>
                       LET mine == service_stats[i[1]]
                           mine2 == service_stats'[i[1]]
                       IN mine2.processed + mine2.errors
                             = mine.processed + mine.errors + 1]_vars

\* C18 witness: every listed movie is done and counted under Radarr, and a
\* series, already counted under Sonarr, is at its notification
C18_Witness ==
    /\ main_pc = "Sonarr"
    /\ \A j \in ItemsOf("Radarr") : pc[j] = "done"
    /\ RadarrStats.processed + RadarrStats.errors
          = Cardinality(ItemsOf("Radarr"))
    /\ RadarrStats.processed > 0 /\ RadarrStats.errors > 0
    /\ \E i \in Series : pc[i] = "notify"
    /\ SonarrStats.processed = 1 /\ SonarrStats.updated = 1

\* what is on record for item i: its entries of the two logs, the arguments
\* of its _log_change call, and the update calls made for it
RecordOf(i) ==
    <<{changes_log[k] : k \in EntriesOfItem(changes_log, i)},
      EntriesOfItem(errors_log, i), pend[i], update_calls[i]>>

\* C19: a failure of the notifier stays inside send_notification: whatever the
\* Gotify client does, the step after it ends the worker, and the logs, the
\* counters, the recorded labels of the item, its update calls and the
\* catalog are as they were; an item whose notification failed is on record
\* as a success with its labels, has no entry of the error log, had one
\* update call and is not attempted again.
C19_NotifierFailureSwallowed ==
    /\ [](\A i \in gotify_errors :
            /\ pc[i] = "done"
            /\ pend[i].success /\ HasChanges(pend[i].added, pend[i].removed)
            /\ \E k \in DOMAIN changes_log :
                  /\ EntriesOfItem(changes_log, i) = {k}
                  /\ changes_log[k].added = pend[i].added
                  /\ changes_log[k].removed = pend[i].removed
            /\ EntriesOfItem(errors_log, i) = {}
            /\ update_calls[i] = 1)
    /\ [][\A i \in Items :
            (pc[i] = "notify" /\ pc'[i] # "notify")
              => /\ pc'[i] = "done"
                 /\ RecordOf(i)' = RecordOf(i)
                 /\ UNCHANGED <<changes_log, errors_log, service_stats,
                                update_calls, cat_item_tags>>]_vars

\* C19 witness: the run has ended; the notification of an updated item
\* failed, and the item is counted as processed and updated
C19_Witness ==
    \E i \in gotify_errors :
        /\ main_pc = "finished"
        /\ service_stats[ServiceOf(i)].updated > 0
        /\ service_stats[ServiceOf(i)].errors = 0
        /\ cat_item_tags[i] = item_tags[i]

\* the label of the k-th configured provider's tag
LabelOfProvider(k) == get_tag_label_for_provider(prefix, providers[k])

\* run() is past s, the items of s were fetched, none was submitted, and the
\* catalog lacks the tag of a configured provider: create_tag raised
CreateTagFailedFor(s) ==
    /\ Past(s)
    /\ ItemsOf(s) # {}
    /\ \A i \in ItemsOf(s) : pc[i] = "idle" /\ item_tags[i] # {}
    /\ \E k \in DOMAIN providers : LabelOfProvider(k) \notin Range(cat_tags[s])

\* C20: a step of the loop that ensures the managed tags either leaves the
\* provider's tag in the catalog and goes on to the next provider, or ends
\* the service run: the same tag is not tried again, run() goes on with what
\* follows the service, no item of the service is submitted to a worker, and
\* nothing is counted, logged or updated for the service; once run() is past
\* a service, its catalog's tags and its items' workers stay as they are.
C20_TagCreationFailureAbortsService ==
    /\ [](\A s \in Services : CreateTagFailedFor(s) => Untouched(s))
    /\ [][\A s \in Services :
            /\ (main_pc = s /\ svc_pc = "create_tag"
                  /\ tag_idx <= Len(providers)
                  /\ <<main_pc, svc_pc, tag_idx, cat_tags>>'
                        # <<main_pc, svc_pc, tag_idx, cat_tags>>)
                 => \/ /\ main_pc' = s /\ svc_pc' = "create_tag"
                       /\ tag_idx' = tag_idx + 1
                       /\ LabelOfProvider(tag_idx) \in Range(cat_tags'[s])
                    \/ /\ main_pc' = FollowingService(s)
                       /\ svc_pc' = "get_media"
                       /\ cat_tags' = cat_tags
                       /\ \A i \in ItemsOf(s) : pc'[i] = "idle"
                       /\ Untouched(s)'
            /\ (Past(s) /\ run_no' = run_no)
                 => /\ cat_tags'[s] = cat_tags[s]
                    /\ \A i \in ItemsOf(s) :
                          /\ pc'[i] = pc[i]
                          /\ update_calls'[i] = update_calls[i]]_vars

\* C20 witness: the run has ended; a tag could not be created in Radarr, whose
\* movies were fetched and never submitted, and the series were all processed
C20_Witness ==
    /\ main_pc = "finished"
    /\ CreateTagFailedFor("Radarr")
    /\ Untouched("Radarr")
    /\ Completed("Sonarr")
    /\ ItemsOf("Sonarr") # {}

\* the texts of an NFO's <tag> elements that carry the configured prefix, and
\* the labels of an item's catalog tags that carry it
PrefixedTexts(tags) == {t \in Range(tags) : startswith(t, prefix)}
PrefixedLabels(i) ==
    {l \in CatalogLabels(ServiceOf(i), cat_item_tags[i]) : startswith(l, prefix)}

\* the script for service s is past item i, whose NFO file exists and parses
Synced(s, i) ==
    /\ sync_svc = s
    /\ sync_pc \in {"loop", "finished"}
    /\ i \in ItemsOf(s) /\ i[2] < sync_idx
    /\ nfo[i].file = "ok"

\* C21: once the movie script is past a movie whose NFO parses, every tag of
\* the NFO that carries the prefix is a prefixed tag the movie has in Radarr
\* and every such tag of the movie is in the NFO; and no step of the script
\* drops an NFO tag that is not a Radarr label of the movie.
C21_MovieNfoPrefixedTagsCurrent ==
    /\ [](\A i \in Movies :
            Synced("Radarr", i) => PrefixedTexts(nfo[i].tags) = PrefixedLabels(i))
    /\ [][\A i \in Movies :
            sync_svc = "Radarr" =>
               \A t \in Range(nfo[i].tags) :
                  (t # << >> /\ t \notin CatalogLabels("Radarr", cat_item_tags[i]))
                     => t \in Range(nfo'[i].tags)]_vars

\* the <tag> elements of an NFO that do not carry the prefix, in their order
UnprefixedElements(tags) == SelectSeq(tags, LAMBDA t : ~startswith(t, prefix))

\* C22: once the series script is past a series whose NFO parses, the prefixed
\* tags of the NFO are exactly the prefixed tags the series has in Sonarr; no
\* step of the script changes the elements without the prefix, their order
\* included; and the iteration for a series whose prefixed tags already agree
\* leaves the file and the count of written files as they were.
C22_SeriesNfoSynced ==
    /\ [](\A i \in Series :
            Synced("Sonarr", i) => PrefixedTexts(nfo[i].tags) = PrefixedLabels(i))
    /\ [][\A i \in Series :
            sync_svc = "Sonarr" =>
               /\ UnprefixedElements(nfo'[i].tags) = UnprefixedElements(nfo[i].tags)
               /\ nfo'[i].file = nfo[i].file
               /\ (sync_pc = "loop" /\ i = SyncItemAt(sync_idx)
                     /\ PrefixedTexts(nfo[i].tags) = PrefixedLabels(i))
                    => nfo'[i] = nfo[i] /\ updated_count' = updated_count]_vars

\* C22 witness: the series script has written the NFO of a series: a prefixed
\* tag the series no longer has is gone, the genre tag is still the first of
\* the others, and the prefixed tag of the series is there
C22_Witness ==
    \E i \in Series :
        /\ Synced("Sonarr", i)
        /\ sync_pc = "finished"
        /\ updated_count = 1
        /\ Len(nfo[i].tags) = 2
        /\ nfo[i].tags[1] = Genre
        /\ PrefixedLabels(i) = {nfo[i].tags[2]}

\* the worker of item i has returned, with a result or with an exception
WorkerEnded(i) == pc[i] \in {"done", "raised"}

\* C23: no exception leaves _process_single_item: the future of every item
\* handed to a worker ends with a result, never with an exception, and an item
\* whose worker has ended has its outcome on record in the changes log,
\* whatever its record contains (a record without title included).
C23_NoExceptionLeavesWorker ==
    \A i \in Items :
        /\ pc[i] # "raised"
        /\ WorkerEnded(i) => EntriesOfItem(changes_log, i) # {}

\* the outcome of item i is on record: one entry of the changes log
OutcomeRecorded(i) == Cardinality(EntriesOfItem(changes_log, i)) = 1

StatsNotBelow(a, b) ==
    /\ b.processed >= a.processed
    /\ b.updated >= a.updated
    /\ b.errors >= a.errors

\* every worker of every service has completed: run() is at or past the
\* final report
WorkersCompleted == main_pc \in {"summary", "finished"}

\* C25: the counters of a service are zero when a run starts, no counter
\* decreases during a run, and updated <= processed in every state; once the
\* workers of all services have completed the counters do not change again
\* in that run, and the report is rendered only then, from those counters.
C25_CountersMonotoneThenFrozen ==
    /\ [](/\ \A s \in Services :
               service_stats[s].updated <= service_stats[s].processed
          /\ (main_pc = "Radarr" /\ svc_pc = "get_media")
                => \A s \in Services : service_stats[s] = ZeroStats
          /\ report.kind # "none" => WorkersCompleted
          /\ report.kind = "full" => report.stats = service_stats
          /\ report.kind = "no_items"
                => \A s \in Services : service_stats[s].processed = 0)
    /\ [][\/ run_no' = run_no + 1
          \/ /\ \A s \in Services :
                   StatsNotBelow(service_stats[s], service_stats'[s])
             /\ WorkersCompleted => service_stats' = service_stats
             /\ report' # report
                   => /\ WorkersCompleted
                      /\ \A i \in Items : ~Running(i) /\ pc[i] # "queued"]_vars

\* C25 witness: the report of a run in which one service updated fewer items
\* than it processed and another outcome was an error.
C25_Witness ==
    /\ main_pc = "finished"
    /\ report.kind = "full"
    /\ \E s \in Services :
          /\ report.stats[s].updated > 0
          /\ report.stats[s].updated < report.stats[s].processed
    /\ \E s \in Services : report.stats[s].errors > 0

\* the outcome of item i is on record as an error: an entry of the error log
\* or a failure counted by _log_change
ErrorOutcome(i) ==
    \/ EntriesOfItem(errors_log, i) # {}
    \/ pc[i] \in {"errors_log", "log_change", "log_stats", "done"}
          /\ ~pend[i].success

ErrorNotYetCounted(s) ==
    {i \in ItemsOf(s) : /\ EntriesOfItem(errors_log, i) # {}
                        /\ pc[i] \in {"log_change", "log_stats"}
                        /\ ~pend[i].success}

\* the number of entries of the error log for service s
ErrorEntries(s) == Cardinality(EntriesOfService(errors_log, s))

\* C27: the error log and the errors counters agree: in every state the
\* number of error-log entries of a service is its errors counter plus the
\* number of its workers that have appended their entry and not yet counted
\* it, so that once every worker of the service has finished the two numbers
\* are equal; the entry and the count are made under two acquisitions of the
\* lock, the step that appends the entry leaving the lock free and the
\* counter as it was.
C27_ErrorLogMatchesCounter ==
    /\ [](\A s \in Services :
            /\ ErrorEntries(s) =
                  service_stats[s].errors + Cardinality(ErrorNotYetCounted(s))
            /\ (\A i \in ItemsOf(s) : pc[i] \in {"idle", "done"})
                  => ErrorEntries(s) = service_stats[s].errors)
    /\ [][\A i \in Items :
            (pc[i] = "errors_log" /\ pc'[i] # "errors_log")
               => /\ changes_lock' = NoOne
                  /\ service_stats' = service_stats
                  /\ i \in ErrorNotYetCounted(ServiceOf(i))']_vars

\* C27 witness: a worker has appended its entry to the error log and released
\* the lock, the errors counter of its service is still zero, and another
\* worker holds the lock in between.
C27_Witness ==
    \E i, j \in Items :
        /\ i # j
        /\ pc[i] = "log_change"
        /\ EntriesOfItem(errors_log, i) # {}
        /\ service_stats[ServiceOf(i)].errors = 0
        /\ changes_lock = j

====
